---------------------------- MODULE Spec2Model ----------------------------
(***************************************************************************)
(* MainRecommender (src/src/recommenders.py): the state built by __init__  *)
(* from a table of interaction records, the user registration, the four    *)
(* recommendation strategies with their popularity fallback, the          *)
(* evaluator and the reranking.  The fitted models (implicit's ALS / item-item recommender)  *)
(* are external: each query's answer is drawn from the set of answers the  *)
(* call's arguments allow.                                                 *)
(***************************************************************************)
EXTENDS Integers, Sequences, FiniteSets, TLC

(* ------------------------------ bounds -------------------------------- *)
(* Rows of the table given to __init__, the largest N asked for, rows of   *)
(* the held-out table given to the evaluator, evaluator calls per run,     *)
(* rows of the table the evaluated engine is built from.                   *)
MaxRecords == 3
MaxN == 3
MaxHeldOut == 2
MaxEvals == 1
MaxTrainEval == 2
(* Rows of the score table given to the reranking when they are all of one  *)
(* user, and when they are of any users.                                    *)
MaxScores == 6
MaxSmallScores == 1

(* ------------------------- program constants -------------------------- *)
(* The item id the strategies must not recommend. *)
PLACEHOLDER == 999999

UserIds == {1, 2}
(* The user ids the calls are made for: those of the table and one it never holds. *)
CallUserIds == UserIds \cup {3}
ItemIds == {1, 2, PLACEHOLDER}
Ns == 1..MaxN

(* The values of the quantity and sales_value columns. *)
Quantities == {1, 3}
SalesValues == {2, 5}

(* Rows of the input DataFrame: user_id, item_id, quantity, sales_value. *)
TransactionRows ==
    [user_id : UserIds, item_id : ItemIds, quantity : Quantities, sales_value : SalesValues]

(* Rows with one quantity and one sales value: the tables the engine is built from. *)
UnitRows ==
    [user_id : UserIds, item_id : ItemIds, quantity : {1}, sales_value : {2}]

BoundedSeq(S, n) == UNION {[1..k -> S] : k \in 0..n}

(* Tables of at most n rows, up to the order of their rows: every use of    *)
(* the table is a count or an aggregate per group, and the order the sorts  *)
(* leave among equal counts is left open, so one order per table is enough. *)
RowKey(r) == ((r.user_id * 1000000 + r.item_id) * 10 + r.quantity) * 10 + r.sales_value

Tables(S, n) ==
    {d \in BoundedSeq(S, n) : \A k \in 1..(Len(d) - 1) : RowKey(d[k]) <= RowKey(d[k + 1])}

(* ----------------------------- helpers -------------------------------- *)
Range(s) == {s[k] : k \in DOMAIN s}

Min2(a, b) == IF a < b THEN a ELSE b

(* python's s[:n] *)
Take(s, n) == SubSeq(s, 1, Min2(n, Len(s)))

(* s[:-1], the slice that keeps the first entry and drops the last. *)
DropLast(s) == IF Len(s) = 0 THEN <<>> ELSE SubSeq(s, 1, Len(s) - 1)

(* python's s[1:] *)
Tail1(s) == IF Len(s) = 0 THEN <<>> ELSE SubSeq(s, 2, Len(s))

RECURSIVE SortedSeq(_)
(* The elements of a finite set of integers in ascending order. *)
SortedSeq(S) ==
    IF S = {} THEN <<>>
    ELSE LET m == CHOOSE x \in S : \A y \in S : x <= y
         IN <<m>> \o SortedSeq(S \ {m})

RECURSIVE Perms(_)
Perms(S) ==
    IF S = {} THEN {<<>>}
    ELSE UNION {{<<x>> \o p : p \in Perms(S \ {x})} : x \in S}

(* Sequences of distinct elements of S of length exactly n. *)
InjSeqs(S, n) == {s \in [1..n -> S] : \A a, b \in 1..n : a # b => s[a] # s[b]}

RECURSIVE SeqSum(_)
SeqSum(s) == IF Len(s) = 0 THEN 0 ELSE s[1] + SeqSum(Tail(s))

RECURSIVE GCD(_, _)
GCD(a, b) == IF b = 0 THEN a ELSE GCD(b, a % b)

(* The exact value n/d of a float cell, in lowest terms. *)
Frac(n, d) == LET g == GCD(n, d) IN IF g = 0 THEN <<0, 1>> ELSE <<n \div g, d \div g>>

(* ------------------------------ state --------------------------------- *)
VARIABLES
    data,                     \* the DataFrame given to __init__
    user_item_matrix_values,  \* __init__'s value mode
    top_purchases,            \* self.top_purchases
    overall_top_purchases,    \* self.overall_top_purchases
    user_item_matrix,         \* self.user_item_matrix
    id_to_itemid, id_to_userid, itemid_to_id, userid_to_id,
    op,                       \* the last call: its name and arguments
    raw,                      \* the list the strategy built before the fallback
    res,                      \* the list the call returned (<<>> if it raised)
    outcome,                  \* "ok", or the exception the call ended in
    df_result,                \* the held-out table of the last evaluator call
    result_eval,              \* what _get_result made of it
    ret,                      \* what the evaluator call returned
    evals,                    \* evaluator calls made
    neighbours,               \* similar_users of the last similar-users call, self dropped
    df_predict,               \* the score table of the last reranking call
    reranked                  \* the reranked column the last reranking call built

vars == <<data, user_item_matrix_values, top_purchases, overall_top_purchases,
          user_item_matrix, id_to_itemid, id_to_userid, itemid_to_id, userid_to_id,
          op, raw, res, outcome, df_result, result_eval, ret, evals,
          neighbours, df_predict, reranked>>

evaluation == <<df_result, result_eval, ret, evals, df_predict, reranked>>

built == <<data, user_item_matrix_values, top_purchases, overall_top_purchases,
           user_item_matrix, id_to_itemid, itemid_to_id>>

(* --------------------------- construction ----------------------------- *)
(* data.groupby([...])['quantity'].count(): the number of rows of a pair. *)
PairCount(d, u, i) == Cardinality({k \in DOMAIN d : d[k].user_id = u /\ d[k].item_id = i})

ItemCount(d, i) == Cardinality({k \in DOMAIN d : d[k].item_id = i})

DataUsers(d) == {d[k].user_id : k \in DOMAIN d}
DataItems(d) == {d[k].item_id : k \in DOMAIN d}
DataPairs(d) == {<<d[k].user_id, d[k].item_id>> : k \in DOMAIN d}

NonIncreasing(s) == \A k \in 1..(Len(s) - 1) : s[k].quantity >= s[k + 1].quantity

(* The per-user purchase counts, sorted by count descending (the order of   *)
(* equal counts is whatever the sort leaves), without the placeholder item. *)
TopPurchases(d) ==
    LET rows == {[user_id |-> p[1], item_id |-> p[2], quantity |-> PairCount(d, p[1], p[2])] :
                    p \in DataPairs(d)}
        keep(r) == r.item_id # PLACEHOLDER
    IN {SelectSeq(s, keep) : s \in {p \in Perms(rows) : NonIncreasing(p)}}

(* The items sorted by their number of rows descending, placeholder dropped. *)
OverallTopPurchases(d) ==
    LET rows == {[item_id |-> i, quantity |-> ItemCount(d, i)] : i \in DataItems(d)}
        keep(r) == r.item_id # PLACEHOLDER
        ids(s) == [k \in DOMAIN s |-> s[k].item_id]
    IN {ids(SelectSeq(s, keep)) : s \in {p \in Perms(rows) : NonIncreasing(p)}}

(* The quantity (or sales_value) column of the rows of one pair, in row order. *)
PairValues(d, u, i, col) ==
    LET mine(r) == r.user_id = u /\ r.item_id = i
        rows == SelectSeq(d, mine)
    IN [k \in DOMAIN rows |-> IF col = "quantity" THEN rows[k].quantity ELSE rows[k].sales_value]

(* pd.pivot_table's aggregation of one cell: 'count' in binary mode, the    *)
(* default aggfunc (the mean) in the other two; fill_value=0 where absent.  *)
PivotCell(d, u, i, mode) ==
    LET n == PairCount(d, u, i)
    IN IF n = 0 THEN Frac(0, 1)
       ELSE IF mode = "binary" THEN Frac(n, 1)
       ELSE IF mode = "quantity" THEN Frac(SeqSum(PairValues(d, u, i, "quantity")), n)
       ELSE Frac(SeqSum(PairValues(d, u, i, "sales_value")), n)

(* _prepare_matrix: the pivot table of one of the three value modes, rows   *)
(* and columns in ascending id order.                                        *)
_prepare_matrix(d, mode) ==
    [index   |-> SortedSeq(DataUsers(d)),
     columns |-> SortedSeq(DataItems(d)),
     cell    |-> [p \in DataUsers(d) \X DataItems(d) |-> PivotCell(d, p[1], p[2], mode)]]

(* _prepare_dicts: position <-> id over the matrix's index and columns. *)
_prepare_dicts(m) ==
    LET userids == m.index
        itemids == m.columns
    IN [id_to_itemid |-> [k \in 0..(Len(itemids) - 1) |-> itemids[k + 1]],
        id_to_userid |-> [k \in 0..(Len(userids) - 1) |-> userids[k + 1]],
        itemid_to_id |-> [i \in Range(itemids) |-> CHOOSE k \in 0..(Len(itemids) - 1) : itemids[k + 1] = i],
        userid_to_id |-> [u \in Range(userids) |-> CHOOSE k \in 0..(Len(userids) - 1) : userids[k + 1] = u]]

(* The weighting step: the external transform applied to the pivot table. *)
Weighted(m, weighting) == [m EXCEPT !.cell = [p \in DOMAIN m.cell |-> <<weighting, m.cell[p]>>]]

NoCall == [name |-> "init", user |-> 0, N |-> 0]

NoRet == [kind |-> "", value |-> <<0, 1>>, metric_type |-> "", recommend_model_type |-> ""]

NothingCalled ==
    /\ op = NoCall
    /\ raw = <<>>
    /\ res = <<>>
    /\ outcome = "ok"
    /\ df_result = <<>>
    /\ result_eval = <<>>
    /\ ret = NoRet
    /\ evals = 0
    /\ neighbours = <<>>
    /\ df_predict = {}
    /\ reranked = <<>>

(* __init__ with its default arguments (binary values, bm25 weighting). *)
Init ==
    /\ data \in Tables(UnitRows, MaxRecords)
    /\ user_item_matrix_values = "binary"
    /\ top_purchases \in TopPurchases(data)
    /\ overall_top_purchases \in OverallTopPurchases(data)
    /\ LET m == _prepare_matrix(data, user_item_matrix_values)
           dicts == _prepare_dicts(m)
       IN /\ user_item_matrix = Weighted(m, "bm25")
          /\ id_to_itemid = dicts.id_to_itemid
          /\ id_to_userid = dicts.id_to_userid
          /\ itemid_to_id = dicts.itemid_to_id
          /\ userid_to_id = dicts.userid_to_id
    /\ NothingCalled

(* The tables _prepare_matrix is applied to, one value mode at a time. *)
InitMatrix ==
    /\ data \in Tables(TransactionRows, MaxRecords)
    /\ user_item_matrix_values = ""
    /\ top_purchases = <<>>
    /\ overall_top_purchases = <<>>
    /\ user_item_matrix = [index |-> <<>>, columns |-> <<>>, cell |-> <<>>]
    /\ id_to_itemid = <<>>
    /\ id_to_userid = <<>>
    /\ itemid_to_id = <<>>
    /\ userid_to_id = <<>>
    /\ NothingCalled

(* self.user_item_matrix = self._prepare_matrix(data, user_item_matrix_values) *)
PrepareMatrix(mode) ==
    /\ user_item_matrix_values = ""
    /\ user_item_matrix_values' = mode
    /\ user_item_matrix' = _prepare_matrix(data, mode)
    /\ UNCHANGED <<data, top_purchases, overall_top_purchases, id_to_itemid, id_to_userid,
                   itemid_to_id, userid_to_id, op, raw, res, outcome, neighbours, evaluation>>

NextMatrix == \E mode \in {"binary", "quantity", "purchase_sum"} : PrepareMatrix(mode)

SpecMatrix == InitMatrix /\ [][NextMatrix]_vars

(* --------------------------- registration ----------------------------- *)
MaxOf(S) == CHOOSE x \in S : \A y \in S : y <= x

(* _update_dict without its membership test: a known user is given a new index. *)
UpdateDictAlways(u2i, i2u, user_id) ==
    IF DOMAIN u2i = {} THEN [error |-> "ValueError", userid_to_id |-> u2i, id_to_userid |-> i2u]
    ELSE LET max_id == MaxOf(Range(u2i)) + 1
         IN [error |-> "ok",
             userid_to_id |-> [x \in DOMAIN u2i \cup {user_id} |-> IF x = user_id THEN max_id ELSE u2i[x]],
             id_to_userid |-> [k \in DOMAIN i2u \cup {max_id} |-> IF k = max_id THEN user_id ELSE i2u[k]]]

(* _update_dict without max_id += 1: the new user is given the largest index in use. *)
UpdateDictSameIndex(u2i, i2u, user_id) ==
    IF user_id \in DOMAIN u2i THEN [error |-> "ok", userid_to_id |-> u2i, id_to_userid |-> i2u]
    ELSE IF DOMAIN u2i = {} THEN [error |-> "ValueError", userid_to_id |-> u2i, id_to_userid |-> i2u]
    ELSE LET max_id == MaxOf(Range(u2i))
         IN [error |-> "ok",
             userid_to_id |-> [x \in DOMAIN u2i \cup {user_id} |-> IF x = user_id THEN max_id ELSE u2i[x]],
             id_to_userid |-> [k \in DOMAIN i2u \cup {max_id} |-> IF k = max_id THEN user_id ELSE i2u[k]]]

(* _update_dict keeping only the new user: the entries of the others are lost. *)
UpdateDictForgetting(u2i, i2u, user_id) ==
    IF user_id \in DOMAIN u2i THEN [error |-> "ok", userid_to_id |-> u2i, id_to_userid |-> i2u]
    ELSE IF DOMAIN u2i = {} THEN [error |-> "ValueError", userid_to_id |-> u2i, id_to_userid |-> i2u]
    ELSE LET max_id == MaxOf(Range(u2i)) + 1
         IN [error |-> "ok",
             userid_to_id |-> [x \in {user_id} |-> max_id],
             id_to_userid |-> [k \in {max_id} |-> user_id]]

(* _update_dict: the two user maps after the call, or the exception. *)
_update_dict(u2i, i2u, user_id) ==
    IF user_id \in DOMAIN u2i THEN [error |-> "ok", userid_to_id |-> u2i, id_to_userid |-> i2u]
    ELSE IF DOMAIN u2i = {} THEN [error |-> "ValueError", userid_to_id |-> u2i, id_to_userid |-> i2u]
    ELSE LET max_id == MaxOf(Range(u2i)) + 1
         IN [error |-> "ok",
             userid_to_id |-> [x \in DOMAIN u2i \cup {user_id} |-> IF x = user_id THEN max_id ELSE u2i[x]],
             id_to_userid |-> [k \in DOMAIN i2u \cup {max_id} |-> IF k = max_id THEN user_id ELSE i2u[k]]]

(* ----------------------------- the models ----------------------------- *)
(* Rows and columns of the matrix the two models were fitted on. *)
n_users == Len(user_item_matrix.index)
n_items == Len(user_item_matrix.columns)

(* filter_items=[self.itemid_to_id[999999]] where the lookup succeeds. *)
FilterItems == IF PLACEHOLDER \in DOMAIN itemid_to_id THEN {itemid_to_id[PLACEHOLDER]} ELSE {}

(* model.recommend(userid, user_items, N, filter_items): item indices, best *)
(* first, none filtered, none twice.  The factorization model ranks every   *)
(* item and returns N of them (all, if fewer are left); the item-item model *)
(* returns the items with a score, which may be fewer.                      *)
ModelRecommend(model, N, filter_items) ==
    LET cand == DOMAIN id_to_itemid \ filter_items
        most == Min2(N, Cardinality(cand))
    IN IF model = "als" THEN InjSeqs(cand, most)
       ELSE UNION {InjSeqs(cand, k) : k \in 0..most}

(* model.similar_items(itemid, N): the query item first, then the others. *)
ModelSimilarItems(itemid, N) ==
    {<<itemid>> \o s : s \in InjSeqs(DOMAIN id_to_itemid \ {itemid}, Min2(N - 1, n_items - 1))}

(* model.similar_users(userid, N): the query user first, then the others. *)
ModelSimilarUsers(userid, N) ==
    {<<userid>> \o s : s \in InjSeqs((0..(n_users - 1)) \ {userid}, Min2(N - 1, n_users - 1))}

(* ---------------------------- the strategies --------------------------- *)
(* What a call leaves: the exception or "ok", the list before the fallback, *)
(* the returned list, the two user maps, and the neighbours drawn from.     *)
Ret(error, rawl, resl, u2i, i2u) ==
    [error |-> error, raw |-> rawl, res |-> resl, userid_to_id |-> u2i, id_to_userid |-> i2u,
     similar_users |-> <<>>]

(* _extend_with_top_popular without its truncation to N. *)
ExtendUntruncated(recommendations, N) ==
    IF Len(recommendations) < N
    THEN recommendations \o Take(overall_top_purchases, N)
    ELSE recommendations

(* _extend_with_top_popular putting the popular items first. *)
ExtendPopularFirst(recommendations, N) ==
    IF Len(recommendations) < N
    THEN Take(Take(overall_top_purchases, N) \o recommendations, N)
    ELSE recommendations

(* _extend_with_top_popular: extend by the first N popular items, keep N. *)
_extend_with_top_popular(recommendations, N) ==
    IF Len(recommendations) < N
    THEN Take(recommendations \o Take(overall_top_purchases, N), N)
    ELSE recommendations

(* return res, the assertion left out. *)
ReturnedUnchecked(rawl, resl, N, u2i, i2u) == Ret("ok", rawl, resl, u2i, i2u)

(* assert len(res) == N; return res *)
AssertedReturn(rawl, resl, N, u2i, i2u) ==
    IF Len(resl) = N THEN Ret("ok", rawl, resl, u2i, i2u)
    ELSE Ret("AssertionError", rawl, <<>>, u2i, i2u)

(* _get_recommendations, recs being the model's answer to recommend(). *)
_get_recommendations(u2i, i2u, user, model, N, recs) ==
    LET upd == _update_dict(u2i, i2u, user)
    IN IF upd.error # "ok" THEN Ret(upd.error, <<>>, <<>>, u2i, i2u)
       ELSE IF PLACEHOLDER \notin DOMAIN itemid_to_id
       THEN Ret("KeyError", <<>>, <<>>, upd.userid_to_id, upd.id_to_userid)
       ELSE IF upd.userid_to_id[user] >= n_users
       THEN Ret(IF model = "als" THEN "IndexError" ELSE "ValueError", <<>>, <<>>,
                upd.userid_to_id, upd.id_to_userid)
       ELSE LET rawl == [k \in DOMAIN recs |-> id_to_itemid[recs[k]]]
                resl == _extend_with_top_popular(rawl, N)
            IN AssertedReturn(rawl, resl, N, upd.userid_to_id, upd.id_to_userid)

(* get_recommendations: the factorization model. *)
get_recommendations(u2i, i2u, user, N, recs) ==
    LET upd == _update_dict(u2i, i2u, user)
    IN IF upd.error # "ok" THEN Ret(upd.error, <<>>, <<>>, u2i, i2u)
       ELSE _get_recommendations(upd.userid_to_id, upd.id_to_userid, user, "als", N, recs)

(* get_own_recommendations: the item-item model. *)
get_own_recommendations(u2i, i2u, user, N, recs) ==
    LET upd == _update_dict(u2i, i2u, user)
    IN IF upd.error # "ok" THEN Ret(upd.error, <<>>, <<>>, u2i, i2u)
       ELSE _get_recommendations(upd.userid_to_id, upd.id_to_userid, user, "own", N, recs)

(* _get_similar_item taking the first of the two similar items. *)
GetFirstSimilarItem(item_id, recs) ==
    IF Len(recs) < 2 THEN [error |-> "IndexError", item |-> 0]
    ELSE [error |-> "ok", item |-> id_to_itemid[recs[1]]]

(* _get_similar_item, recs being the model's answer to similar_items(). *)
_get_similar_item(item_id, recs) ==
    IF Len(recs) < 2 THEN [error |-> "IndexError", item |-> 0]
    ELSE [error |-> "ok", item |-> id_to_itemid[recs[2]]]

(* top_purchases[top_purchases['user_id'] == user_id].head(N)['item_id'] *)
TopUsersPurchases(user_id, N) ==
    LET mine(r) == r.user_id = user_id
        rows == Take(SelectSeq(top_purchases, mine), N)
    IN [k \in DOMAIN rows |-> rows[k].item_id]

(* get_similar_items_recommendation, sims[k] being the model's answer for *)
(* the k-th source item.                                                  *)
get_similar_items_recommendation(u2i, i2u, user_id, N, sims) ==
    LET found == [k \in DOMAIN sims |-> _get_similar_item(TopUsersPurchases(user_id, N)[k], sims[k])]
    IN IF \E k \in DOMAIN found : found[k].error # "ok"
       THEN Ret("IndexError", <<>>, <<>>, u2i, i2u)
       ELSE LET rawl == [k \in DOMAIN found |-> found[k].item]
                resl == _extend_with_top_popular(rawl, N)
            IN AssertedReturn(rawl, resl, N, u2i, i2u)

RECURSIVE OwnOfEach(_, _, _, _, _, _)
(* for _user_id in similar_users: res.extend(get_own_recommendations(_user_id, N=1)) *)
OwnOfEach(u2i, i2u, similar_users, owns, k, acc) ==
    IF k > Len(similar_users) THEN Ret("ok", acc, acc, u2i, i2u)
    ELSE LET r == get_own_recommendations(u2i, i2u, similar_users[k], 1, owns[k])
         IN IF r.error # "ok" THEN Ret(r.error, <<>>, <<>>, r.userid_to_id, r.id_to_userid)
            ELSE OwnOfEach(r.userid_to_id, r.id_to_userid, similar_users, owns, k + 1, acc \o r.res)

(* get_similar_users_recommendation, found being the model's answer to      *)
(* similar_users() and owns[k] the item-item model's answer for neighbour k. *)
get_similar_users_recommendation(u2i, i2u, user_id, N, found, owns) ==
    IF user_id \notin DOMAIN u2i THEN Ret("KeyError", <<>>, <<>>, u2i, i2u)
    ELSE IF u2i[user_id] >= n_users THEN Ret("IndexError", <<>>, <<>>, u2i, i2u)
    ELSE LET similar_users == Tail1([k \in DOMAIN found |-> i2u[found[k]]])
             each == OwnOfEach(u2i, i2u, similar_users, owns, 1, <<>>)
             back == IF each.error # "ok" THEN each
                     ELSE AssertedReturn(each.raw, _extend_with_top_popular(each.raw, N), N,
                                         each.userid_to_id, each.id_to_userid)
         IN [back EXCEPT !.similar_users = similar_users]

(* Every outcome a strategy call can have, over the models' answers. *)
SeqsOver(n, S) == [1..n -> S]

OutcomesRec(u2i, i2u, user, N) ==
    {get_recommendations(u2i, i2u, user, N, recs) : recs \in ModelRecommend("als", N, FilterItems)}

OutcomesOwn(u2i, i2u, user, N) ==
    {get_own_recommendations(u2i, i2u, user, N, recs) : recs \in ModelRecommend("own", N, FilterItems)}

OutcomesItm(u2i, i2u, user, N) ==
    LET src == TopUsersPurchases(user, N)
        answers == {s \in SeqsOver(Len(src), UNION {ModelSimilarItems(i, 2) : i \in DOMAIN id_to_itemid}) :
                       \A k \in DOMAIN src : s[k] \in ModelSimilarItems(itemid_to_id[src[k]], 2)}
    IN {get_similar_items_recommendation(u2i, i2u, user, N, sims) : sims \in answers}

OutcomesUsr(u2i, i2u, user, N) ==
    IF user \notin DOMAIN u2i \/ u2i[user] >= n_users
    THEN {get_similar_users_recommendation(u2i, i2u, user, N, <<>>, <<>>)}
    ELSE {get_similar_users_recommendation(u2i, i2u, user, N, found, owns) :
             found \in ModelSimilarUsers(u2i[user], N + 1),
             owns \in SeqsOver(Min2(N, n_users - 1), ModelRecommend("own", 1, FilterItems))}

(* ------------------------------ actions -------------------------------- *)
Called(name, user, N, r) ==
    /\ op' = [name |-> name, user |-> user, N |-> N]
    /\ raw' = r.raw
    /\ res' = r.res
    /\ outcome' = r.error
    /\ userid_to_id' = r.userid_to_id
    /\ id_to_userid' = r.id_to_userid
    /\ neighbours' = r.similar_users
    /\ UNCHANGED <<built, evaluation>>

UpdateDict(user) ==
    \E r \in {_update_dict(userid_to_id, id_to_userid, user)} :
        Called("_update_dict", user, 0, Ret(r.error, <<>>, <<>>, r.userid_to_id, r.id_to_userid))

Recommend(user, N) ==
    \E r \in OutcomesRec(userid_to_id, id_to_userid, user, N) : Called("get_recommendations", user, N, r)

RecommendOwn(user, N) ==
    \E r \in OutcomesOwn(userid_to_id, id_to_userid, user, N) : Called("get_own_recommendations", user, N, r)

RecommendSimilarItems(user, N) ==
    \E r \in OutcomesItm(userid_to_id, id_to_userid, user, N) :
        Called("get_similar_items_recommendation", user, N, r)

RecommendSimilarUsers(user, N) ==
    \E r \in OutcomesUsr(userid_to_id, id_to_userid, user, N) :
        Called("get_similar_users_recommendation", user, N, r)

Next ==
    \/ \E user \in CallUserIds : UpdateDict(user)
    \/ \E user \in CallUserIds, N \in Ns : Recommend(user, N)
    \/ \E user \in CallUserIds, N \in Ns : RecommendOwn(user, N)
    \/ \E user \in CallUserIds, N \in Ns : RecommendSimilarItems(user, N)
    \/ \E user \in CallUserIds, N \in Ns : RecommendSimilarUsers(user, N)

Spec == Init /\ [][Next]_vars

(* ----------------------------- evaluator ------------------------------ *)
HeldOutRows == [user_id : UserIds, item_id : ItemIds]

HeldOutTables == BoundedSeq(HeldOutRows, MaxHeldOut) \ {<<>>}

MetricTypes == {"recall", "precision", "f1"}

RecommendModelTypes == {"own", "rec", "itm", "usr", "top"}

RECURSIVE Unique(_)
(* Series.unique(): the values in order of first appearance. *)
Unique(s) ==
    IF Len(s) = 0 THEN <<>>
    ELSE LET init == Unique(SubSeq(s, 1, Len(s) - 1))
             last == s[Len(s)]
         IN IF last \in Range(init) THEN init ELSE Append(init, last)

(* _get_result: df_result.groupby('user_id')['item_id'].unique().reset_index() *)
_get_result(df) ==
    LET users == SortedSeq({df[k].user_id : k \in DOMAIN df})
        items(u) == LET mine(r) == r.user_id = u
                        rows == SelectSeq(df, mine)
                    IN [k \in DOMAIN rows |-> rows[k].item_id]
    IN [k \in DOMAIN users |-> [user_id |-> users[k], actual |-> Unique(items(users[k]))]]

StrategyOutcomes(recommend_model_type, u2i, i2u, user, N) ==
    CASE recommend_model_type = "own" -> OutcomesOwn(u2i, i2u, user, N)
      [] recommend_model_type = "rec" -> OutcomesRec(u2i, i2u, user, N)
      [] recommend_model_type = "itm" -> OutcomesItm(u2i, i2u, user, N)
      [] recommend_model_type = "usr" -> OutcomesUsr(u2i, i2u, user, N)

RECURSIVE ApplyToRows(_, _, _, _, _, _, _)
(* result_eval[target_col_name].apply(lambda x: strategy(x, N=N_PREDICT)): *)
(* the strategy on each row's user in turn; an exception ends the loop.    *)
ApplyToRows(recommend_model_type, rows, k, N, u2i, i2u, acc) ==
    IF k > Len(rows)
    THEN {[error |-> "ok", none |-> FALSE, column |-> acc, userid_to_id |-> u2i, id_to_userid |-> i2u]}
    ELSE UNION {IF r.error # "ok"
                THEN {[error |-> r.error, none |-> FALSE, column |-> <<>>,
                       userid_to_id |-> r.userid_to_id, id_to_userid |-> r.id_to_userid]}
                ELSE ApplyToRows(recommend_model_type, rows, k + 1, N,
                                 r.userid_to_id, r.id_to_userid, Append(acc, r.res)) :
                r \in StrategyOutcomes(recommend_model_type, u2i, i2u, rows[k].user_id, N)}

(* _get_recommend_eval: the result column, or None for an unknown tag. *)
_get_recommend_eval(rows, recommend_model_type, N_PREDICT, u2i, i2u) ==
    IF recommend_model_type \in {"own", "rec", "itm", "usr"}
    THEN ApplyToRows(recommend_model_type, rows, 1, N_PREDICT, u2i, i2u, <<>>)
    ELSE {[error |-> "ok", none |-> TRUE, column |-> <<>>, userid_to_id |-> u2i, id_to_userid |-> i2u]}

(* Rational arithmetic on the metric values. *)
FracAdd(a, b) == Frac(a[1] * b[2] + b[1] * a[2], a[2] * b[2])

RECURSIVE FracSum(_)
FracSum(s) == IF Len(s) = 0 THEN <<0, 1>> ELSE FracAdd(s[1], FracSum(Tail(s)))

Mean(s) == LET t == FracSum(s) IN Frac(t[1], t[2] * Len(s))

Hits(recommended_list, bought_list, k) ==
    Cardinality(Range(Take(recommended_list, k)) \cap Range(bought_list))

precision_at_k(recommended_list, bought_list, k) == Frac(Hits(recommended_list, bought_list, k), k)

recall_at_k(recommended_list, bought_list, k) ==
    IF Len(bought_list) = 0 THEN <<0, 1>>
    ELSE Frac(Hits(recommended_list, bought_list, k), Len(bought_list))

Returned(kind, value, metric_type, recommend_model_type) ==
    [kind |-> kind, value |-> value, metric_type |-> metric_type,
     recommend_model_type |-> recommend_model_type]

(* evalMetrics: every outcome of one call, over the models' answers. *)
evalMetrics(u2i, i2u, metric_type, df, recommend_model_type, N_PREDICT) ==
    LET rows == _get_result(df)
        back(error, kind, value, e) ==
            [error |-> error, ret |-> Returned(kind, value, metric_type, recommend_model_type),
             userid_to_id |-> e.userid_to_id, id_to_userid |-> e.id_to_userid]
        score(e) ==
            IF e.error # "ok" THEN back(e.error, "raised", <<0, 1>>, e)
            ELSE IF metric_type = "recall"
            THEN IF e.none THEN back("AttributeError", "raised", <<0, 1>>, e)
                 ELSE back("ok", "float",
                           Mean([k \in DOMAIN rows |-> recall_at_k(e.column[k], rows[k].actual, N_PREDICT)]), e)
            ELSE IF metric_type = "precision"
            THEN IF e.none THEN back("AttributeError", "raised", <<0, 1>>, e)
                 ELSE back("ok", "float",
                           Mean([k \in DOMAIN rows |-> precision_at_k(e.column[k], rows[k].actual, N_PREDICT)]), e)
            ELSE back("ok", "None", <<0, 1>>, e)
    IN {score(e) : e \in _get_recommend_eval(rows, recommend_model_type, N_PREDICT, u2i, i2u)}

EvalMetrics(metric_type, df, recommend_model_type, N_PREDICT) ==
    /\ evals < MaxEvals
    /\ \E r \in evalMetrics(userid_to_id, id_to_userid, metric_type, df, recommend_model_type, N_PREDICT) :
          /\ op' = [name |-> "evalMetrics", user |-> 0, N |-> N_PREDICT]
          /\ raw' = <<>>
          /\ res' = <<>>
          /\ outcome' = r.error
          /\ userid_to_id' = r.userid_to_id
          /\ id_to_userid' = r.id_to_userid
          /\ df_result' = df
          /\ result_eval' = _get_result(df)
          /\ ret' = r.ret
          /\ evals' = evals + 1
          /\ UNCHANGED <<built, neighbours, df_predict, reranked>>

NextEval ==
    \E metric_type \in MetricTypes, df \in HeldOutTables,
       recommend_model_type \in RecommendModelTypes, N_PREDICT \in Ns :
        EvalMetrics(metric_type, df, recommend_model_type, N_PREDICT)

(* The evaluated engine: built from a table that is not empty. *)
InitEval == Init /\ 0 < Len(data) /\ Len(data) <= MaxTrainEval

SpecEval == InitEval /\ [][NextEval]_vars

(* ----------------------------- reranking ------------------------------ *)
(* head(5) in _rerank. *)
HeadRows == 5

(* proba_item_purchase: three scores standing for a low, a middle and a    *)
(* high value.                                                              *)
Probas == {1, 2, 3}

ScoreRows == [user_id : UserIds, item_id : ItemIds \ {PLACEHOLDER}, proba_item_purchase : Probas]

(* df_predict: up to MaxSmallScores rows of any users, or up to MaxScores   *)
(* rows of one user.                                                        *)
ScoreTables ==
    {t \in SUBSET ScoreRows :
        \/ Cardinality(t) <= MaxSmallScores
        \/ /\ Cardinality(t) = MaxScores
           /\ \E u \in UserIds : \A r \in t : r.user_id = u}

RECURSIVE SortedDesc(_)
(* sort_values('proba_item_purchase', ascending=False): the rows by score   *)
(* descending, rows of equal score in whatever order the sort leaves.       *)
SortedDesc(S) ==
    IF S = {} THEN {<<>>}
    ELSE LET top == {r \in S : \A q \in S : q.proba_item_purchase <= r.proba_item_purchase}
         IN UNION {{<<r>> \o t : t \in SortedDesc(S \ {r})} : r \in top}

(* _rerank without head(5). *)
RerankUncut(user_id, scores) ==
    LET mine == {r \in scores : r.user_id = user_id}
    IN {[k \in DOMAIN s |-> s[k].item_id] : s \in SortedDesc(mine)}

(* _rerank: the item ids of the user's rows, best score first, five at most. *)
_rerank(user_id, scores) ==
    LET mine == {r \in scores : r.user_id = user_id}
    IN {[k \in DOMAIN Take(s, HeadRows) |-> s[k].item_id] : s \in SortedDesc(mine)}

RECURSIVE RerankedColumns(_, _, _, _)
(* result_eval[target_col_name].apply(lambda user_id: self._rerank(...)) *)
RerankedColumns(rows, scores, k, acc) ==
    IF k > Len(rows) THEN {acc}
    ELSE UNION {RerankedColumns(rows, scores, k + 1,
                                Append(acc, [user_id |-> rows[k].user_id, reranked |-> l])) :
                l \in _rerank(rows[k].user_id, scores)}

(* reranked_metrics: every outcome of one call, over the models' answers    *)
(* and the sort's orders.                                                   *)
reranked_metrics(u2i, i2u, metric_type, df, scores, recommend_model_type, N_PREDICT, return_reranked_data) ==
    LET rows == _get_result(df)
        back(error, kind, value, column, e) ==
            [error |-> error, ret |-> Returned(kind, value, metric_type, recommend_model_type),
             reranked |-> column, userid_to_id |-> e.userid_to_id, id_to_userid |-> e.id_to_userid]
        shape(kind) == IF return_reranked_data THEN kind \o "+frame" ELSE kind
        score(e, column) ==
            IF metric_type = "recall"
            THEN back("ok", shape("float"),
                      Mean([k \in DOMAIN rows |->
                               recall_at_k(column[k].reranked, rows[k].actual, N_PREDICT)]), column, e)
            ELSE IF metric_type = "precision"
            THEN back("ok", shape("float"),
                      Mean([k \in DOMAIN rows |->
                               precision_at_k(column[k].reranked, rows[k].actual, N_PREDICT)]), column, e)
            ELSE back("ok", shape("None"), <<0, 1>>, column, e)
        after(e) ==
            IF e.error # "ok" THEN {back(e.error, "raised", <<0, 1>>, <<>>, e)}
            ELSE IF e.none THEN {back("TypeError", "raised", <<0, 1>>, <<>>, e)}
            ELSE {score(e, column) : column \in RerankedColumns(rows, scores, 1, <<>>)}
    IN UNION {after(e) : e \in _get_recommend_eval(rows, recommend_model_type, N_PREDICT, u2i, i2u)}

RerankedMetrics(metric_type, df, scores, recommend_model_type, N_PREDICT, return_reranked_data) ==
    /\ evals < MaxEvals
    /\ \E r \in reranked_metrics(userid_to_id, id_to_userid, metric_type, df, scores,
                                 recommend_model_type, N_PREDICT, return_reranked_data) :
          /\ op' = [name |-> "reranked_metrics", user |-> 0, N |-> N_PREDICT]
          /\ raw' = <<>>
          /\ res' = <<>>
          /\ outcome' = r.error
          /\ userid_to_id' = r.userid_to_id
          /\ id_to_userid' = r.id_to_userid
          /\ df_result' = df
          /\ result_eval' = _get_result(df)
          /\ ret' = r.ret
          /\ evals' = evals + 1
          /\ df_predict' = scores
          /\ reranked' = r.reranked
          /\ UNCHANGED <<built, neighbours>>

(* The held-out tables of the reranking runs: one row, of item 1. *)
RerankHeldOut == {t \in HeldOutTables : Len(t) = 1 /\ t[1].item_id = 1}

NextRerank ==
    \E metric_type \in MetricTypes, df \in RerankHeldOut, scores \in ScoreTables,
       recommend_model_type \in RecommendModelTypes, N_PREDICT \in Ns,
       return_reranked_data \in BOOLEAN :
        RerankedMetrics(metric_type, df, scores, recommend_model_type, N_PREDICT, return_reranked_data)

(* The reranked engine: built from a table that holds the placeholder item. *)
InitRerank == Init /\ Len(data) = MaxTrainEval /\ PLACEHOLDER \in DataItems(data)

SpecRerank == InitRerank /\ [][NextRerank]_vars

(* The evaluator's two entry points on the same engine: each applies the    *)
(* strategy asked for, with its registration step, to the held-out users.   *)
NextFrame ==
    \/ \E metric_type \in MetricTypes, df \in RerankHeldOut,
          recommend_model_type \in RecommendModelTypes, N_PREDICT \in Ns :
           EvalMetrics(metric_type, df, recommend_model_type, N_PREDICT)
    \/ NextRerank

SpecFrame == InitRerank /\ [][NextFrame]_vars

(* ------------------------------ claims --------------------------------- *)
StrategyNames ==
    {"get_recommendations", "get_own_recommendations",
     "get_similar_items_recommendation", "get_similar_users_recommendation"}

StrategyCalled == op.name \in StrategyNames

(* The user of the last call has at least one row in the construction table. *)
KnownUser == op.user \in DataUsers(data)

(* C1 as stated: for a user with at least one interaction and any N >= 1,   *)
(* each of the four strategies returns a list of length exactly N.  (Taken  *)
(* where the construction table holds the placeholder item and another      *)
(* item, so that neither the lookup of the placeholder's index nor an empty *)
(* popularity ranking is what fails.)                                       *)
C1_AlwaysReturnsN ==
    (/\ StrategyCalled
     /\ KnownUser
     /\ PLACEHOLDER \in DataItems(data)
     /\ Len(overall_top_purchases) > 0) =>
        (outcome = "ok" /\ Len(res) = op.N)

(* C1 amended: for such a user a strategy call either raises or returns a   *)
(* list of length exactly N, and it returns one whenever the placeholder    *)
(* item occurs in the construction table and the popularity ranking holds   *)
(* at least N items.                                                        *)
C1_ReturnsNOrRaises ==
    (StrategyCalled /\ KnownUser) =>
        /\ outcome = "ok" => Len(res) = op.N
        /\ (PLACEHOLDER \in DataItems(data) /\ Len(overall_top_purchases) >= op.N) => outcome = "ok"

(* C1 witness: the similar-users strategy returned 2 items to a known user, *)
(* one from a neighbour and one from the fallback.                          *)
C1_Witness ==
    /\ op.name = "get_similar_users_recommendation"
    /\ KnownUser
    /\ outcome = "ok"
    /\ op.N = 2
    /\ Len(res) = 2
    /\ Len(raw) = 1

(* C2 as stated: the placeholder item id is in no list a strategy returns. *)
C2_PlaceholderNeverReturned ==
    (StrategyCalled /\ outcome = "ok") => PLACEHOLDER \notin Range(res)

(* C3 as stated: with L = len(raw) < N the result has N entries, the first  *)
(* L the raw list and the other N-L the first N-L of the popularity         *)
(* ranking; with L >= N the raw list is returned unchanged.  (Taken on the  *)
(* non-empty raw lists of the strategy calls that reached the fallback,     *)
(* with a ranking that is not empty.)                                       *)
C3_FallbackFillsToN ==
    (/\ StrategyCalled
     /\ outcome \in {"ok", "AssertionError"}
     /\ Len(raw) > 0
     /\ Len(overall_top_purchases) > 0) =>
        \A N \in Ns :
            LET L == Len(raw)
                out == _extend_with_top_popular(raw, N)
            IN IF L < N
               THEN /\ Len(out) = N
                    /\ SubSeq(out, 1, L) = raw
                    /\ SubSeq(out, L + 1, N) = SubSeq(overall_top_purchases, 1, N - L)
               ELSE out = raw

(* C3 amended: with L < N the result is the raw list followed by the first  *)
(* N-L entries of the popularity ranking, or by the whole ranking when it   *)
(* holds fewer than N-L (the result is then shorter than N); with L >= N    *)
(* the raw list is returned unchanged.                                      *)
C3_FallbackLaw ==
    StrategyCalled =>
        \A N \in Ns :
            LET L == Len(raw)
                out == _extend_with_top_popular(raw, N)
            IN IF L < N
               THEN out = raw \o SubSeq(overall_top_purchases, 1, Min2(N - L, Len(overall_top_purchases)))
               ELSE out = raw

(* C3 witness: a strategy's non-empty raw list was shorter than N and the   *)
(* call returned it followed by popular items.                              *)
C3_Witness ==
    /\ StrategyCalled
    /\ outcome = "ok"
    /\ 0 < Len(raw)
    /\ Len(raw) < op.N
    /\ Len(res) = op.N
    /\ SubSeq(res, 1, Len(raw)) = raw

(* C4 as stated: get_own_recommendations(user, N) for a user with no row in *)
(* the construction table returns exactly N item ids, none the placeholder, *)
(* and raises nothing.  (The claim's N is 3; taken at every N the           *)
(* popularity ranking alone can fill, where the table holds the placeholder *)
(* item, so that the fallback could serve the call and no other lookup of   *)
(* it can fail.)                                                            *)
C4_ColdStartOwn ==
    (/\ op.name = "get_own_recommendations"
     /\ ~KnownUser
     /\ PLACEHOLDER \in DataItems(data)
     /\ Len(overall_top_purchases) >= op.N) =>
        (outcome = "ok" /\ Len(res) = op.N /\ PLACEHOLDER \notin Range(res))

(* C5: a strategy call whose raw list and the popularity ranking together   *)
(* hold fewer than N ids ends in an error, and no call returns a list whose *)
(* length is not N.                                                         *)
C5_ShortFallbackIsFatal ==
    StrategyCalled =>
        /\ Len(raw) + Len(overall_top_purchases) < op.N => outcome # "ok"
        /\ outcome = "ok" => Len(res) = op.N

(* C5 witness: the length assertion failed on a non-empty raw list padded   *)
(* with a ranking that was too short.                                       *)
C5_Witness ==
    /\ StrategyCalled
    /\ outcome = "AssertionError"
    /\ Len(raw) > 0
    /\ Len(overall_top_purchases) > 0
    /\ Len(raw) + Len(overall_top_purchases) < op.N

(* C6: registering a known user id changes neither user map, and no call    *)
(* ever changes the index of a user id that has one.                        *)
C6_RegistrationIdempotent ==
    [][/\ (op'.name = "_update_dict" /\ op'.user \in DOMAIN userid_to_id) =>
              (userid_to_id' = userid_to_id /\ id_to_userid' = id_to_userid)
       /\ \A u \in DOMAIN userid_to_id :
              u \in DOMAIN userid_to_id' /\ userid_to_id'[u] = userid_to_id[u]]_vars

(* C6 witness: after a new user was registered, a user known since          *)
(* construction was registered again and has the index construction gave it. *)
C6_Witness ==
    /\ op.name = "_update_dict"
    /\ outcome = "ok"
    /\ KnownUser
    /\ Cardinality(DOMAIN userid_to_id) > n_users
    /\ userid_to_id[op.user] = _prepare_dicts(_prepare_matrix(data, "binary")).userid_to_id[op.user]

(* C7 as stated: registering an unknown user id gives it the index          *)
(* max(existing indices) + 1, or 0 when the user map is empty, and inserts  *)
(* the pair into both maps.                                                 *)
C7_RegisterAssignsNext ==
    [][(op'.name = "_update_dict" /\ op'.user \notin DOMAIN userid_to_id) =>
           LET new == IF DOMAIN userid_to_id = {} THEN 0 ELSE MaxOf(Range(userid_to_id)) + 1
           IN /\ op'.user \in DOMAIN userid_to_id'
              /\ userid_to_id'[op'.user] = new
              /\ new \in DOMAIN id_to_userid'
              /\ id_to_userid'[new] = op'.user]_vars

(* C8 as stated: in value mode 'quantity' a cell is the sum of quantity     *)
(* over the rows of its pair, in mode 'purchase_sum' the sum of sales_value *)
(* over them, and 0 for a pair without a row.                               *)
C8_CellsAreSums ==
    user_item_matrix_values \in {"quantity", "purchase_sum"} =>
        \A p \in DOMAIN user_item_matrix.cell :
            LET col == IF user_item_matrix_values = "quantity" THEN "quantity" ELSE "sales_value"
            IN user_item_matrix.cell[p] = Frac(SeqSum(PairValues(data, p[1], p[2], col)), 1)

(* C9 as stated: an evaluator call with an unknown strategy tag or an       *)
(* unknown metric tag returns a descriptive error result and raises         *)
(* nothing.  (An unknown metric tag is taken where the strategy calls of    *)
(* the evaluation raised nothing.)                                          *)
C9_UnknownTagsReported ==
    (/\ op.name = "evalMetrics"
     /\ \/ ret.recommend_model_type \notin {"own", "rec", "itm", "usr"}
        \/ (ret.metric_type \notin {"recall", "precision"} /\ outcome = "ok")) =>
        (outcome = "ok" /\ ret.kind = "message")

(* C10 as stated: the ground-truth table has exactly one row per distinct   *)
(* user of the held-out table, and a row's 'actual' holds exactly the       *)
(* distinct item ids of that user's rows, the placeholder id left out.      *)
C10_GroundTruth ==
    op.name = "evalMetrics" =>
        LET users == {df_result[k].user_id : k \in DOMAIN df_result}
            items(u) == {df_result[k].item_id : k \in {j \in DOMAIN df_result : df_result[j].user_id = u}}
        IN /\ Len(result_eval) = Cardinality(users)
           /\ {result_eval[k].user_id : k \in DOMAIN result_eval} = users
           /\ \A k \in DOMAIN result_eval :
                  /\ Range(result_eval[k].actual) = items(result_eval[k].user_id) \ {PLACEHOLDER}
                  /\ Len(result_eval[k].actual) = Cardinality(Range(result_eval[k].actual))


(* C11: in get_similar_items_recommendation the entry derived from the      *)
(* k-th source item (the user's k-th top purchase) is the second of the two *)
(* similar items asked for that source, it is never the source item itself, *)
(* and the derived entries head the returned list in their sources' order.  *)
C11_SimilarItemNotSource ==
    (op.name = "get_similar_items_recommendation" /\ outcome \in {"ok", "AssertionError"}) =>
        LET src == TopUsersPurchases(op.user, op.N)
        IN /\ Len(raw) = Len(src)
           /\ \A k \in DOMAIN src :
                 /\ raw[k] # src[k]
                 /\ raw[k] \in {id_to_itemid[s[2]] : s \in ModelSimilarItems(itemid_to_id[src[k]], 2)}
           /\ outcome = "ok" => SubSeq(res, 1, Len(raw)) = raw

(* C11 witness: a user with two source items got, for each, the other one. *)
C11_Witness ==
    /\ op.name = "get_similar_items_recommendation"
    /\ outcome = "ok"
    /\ LET src == TopUsersPurchases(op.user, op.N)
       IN /\ Len(src) = 2
          /\ raw = <<src[2], src[1]>>
          /\ res = raw

C13_RerankedFromScores ==
    (op.name = "reranked_metrics" /\ outcome = "ok") =>
        \A k \in DOMAIN reranked :
            LET l == reranked[k].reranked
                u == reranked[k].user_id
                mine == {r \in df_predict : r.user_id = u}
                row(item, proba) == [user_id |-> u, item_id |-> item, proba_item_purchase |-> proba]
            IN /\ Len(l) <= 5
               /\ Len(l) = Min2(5, Cardinality(mine))
               /\ \E sc \in [DOMAIN l -> Probas] :
                     /\ \A j \in DOMAIN l : row(l[j], sc[j]) \in mine
                     /\ \A i, j \in DOMAIN l : i # j => row(l[i], sc[i]) # row(l[j], sc[j])
                     /\ \A j \in 1..(Len(l) - 1) : sc[j] >= sc[j + 1]
                     /\ \A r \in mine \ {row(l[j], sc[j]) : j \in DOMAIN l} :
                           \A j \in DOMAIN l : r.proba_item_purchase <= sc[j]

(* C13 witness: asked for N_PREDICT = 1, the reranking emitted 5 of the 6   *)
(* scored rows of the user.                                                 *)
C13_Witness ==
    /\ op.name = "reranked_metrics"
    /\ outcome = "ok"
    /\ op.N = 1
    /\ \E k \in DOMAIN reranked :
          /\ Len(reranked[k].reranked) = 5
          /\ Cardinality({r \in df_predict : r.user_id = reranked[k].user_id}) = 6


(* C14: after construction and after every registration and strategy call,  *)
(* userid_to_id and id_to_userid are inverse to each other, the indices in  *)
(* use are exactly 0 .. (number of known users - 1), and two user ids never *)
(* share an index.                                                          *)
C14_UserMapsBijective ==
    /\ DOMAIN id_to_userid = 0..(Cardinality(DOMAIN userid_to_id) - 1)
    /\ {userid_to_id[u] : u \in DOMAIN userid_to_id} = DOMAIN id_to_userid
    /\ \A u \in DOMAIN userid_to_id : id_to_userid[userid_to_id[u]] = u
    /\ \A k \in DOMAIN id_to_userid :
          id_to_userid[k] \in DOMAIN userid_to_id /\ userid_to_id[id_to_userid[k]] = k
    /\ \A u, v \in DOMAIN userid_to_id : u # v => userid_to_id[u] # userid_to_id[v]

(* C14 witness: a strategy call registered a second user the construction  *)
(* data did not hold, after the users it held and the first one registered. *)
C14_Witness ==
    /\ StrategyCalled
    /\ ~KnownUser
    /\ op.user \in DOMAIN userid_to_id
    /\ userid_to_id[op.user] = n_users + 1
    /\ n_users > 0


(* C15: no call changes the popularity ranking, the per-user top purchases, *)
(* the interaction matrix or the item maps; the user maps only gain         *)
(* entries: every entry they hold before a call they hold after it.         *)
C15_Frame ==
    [][/\ overall_top_purchases' = overall_top_purchases
       /\ top_purchases' = top_purchases
       /\ user_item_matrix' = user_item_matrix
       /\ itemid_to_id' = itemid_to_id
       /\ id_to_itemid' = id_to_itemid
       /\ \A u \in DOMAIN userid_to_id :
             u \in DOMAIN userid_to_id' /\ userid_to_id'[u] = userid_to_id[u]
       /\ \A k \in DOMAIN id_to_userid :
             k \in DOMAIN id_to_userid' /\ id_to_userid'[k] = id_to_userid[k]]_vars

(* C15 witness: an evaluator call whose strategy registered a held-out user *)
(* the construction data did not hold.                                      *)
C15_Witness ==
    /\ op.name \in {"evalMetrics", "reranked_metrics"}
    /\ Len(df_result) > 0
    /\ df_result[1].user_id \notin DataUsers(data)
    /\ df_result[1].user_id \in DOMAIN userid_to_id
    /\ Cardinality(DOMAIN userid_to_id) = n_users + 1

=============================================================================
